---- MODULE Spec2Model ----
(***************************************************************************)
(* Model of tools/train_logreg_sqlite.py: the label resolver query, the    *)
(* training run main() and its writes to the classifier_models and         *)
(* classifier_metrics tables of the SQLite library database.               *)
(***************************************************************************)
EXTENDS Integers, Sequences, FiniteSets, TLC

VARIABLES
    \* ---- the label tables and the last resolver query (load_training_rows)
    labels_weak,        \* set of rows of table labels_weak
    labels_user,        \* set of rows of table labels_user
    q,                  \* <<>> or <<args>>: the parameters of the query that ran
    rows_out,           \* the list the query returned (fetchall)
    \* ---- one training run per element of Runs (an invocation of main)
    pc,                 \* position of each run in main()
    err,                \* the error a run aborted with ("" = none)
    head_id,            \* main line 93: args.head_id or default_head_id()
    class_order,        \* load_class_order's result
    rows,               \* load_training_rows's result (class_id of each row)
    class_ids,          \* build_arrays: working class list
    y,                  \* build_arrays: label vector
    dim,                \* build_arrays: X.shape[1]
    train_y,            \* split_stratified: classes present in train["y"]
    model,              \* train_logreg: the fitted estimator
    temperature,        \* temperature passed to export_head (hundredths)
    gi,                 \* index into thresholds inside log_gating_metrics
    \* ---- the committed content of the two written tables
    classifier_models,
    classifier_metrics,
    \* ---- one call of split_stratified
    split_in,           \* <<>> or <<arguments>>
    split_out,          \* <<>> or <<what the call returned or raised>>
    \* ---- one call of log_gating_metrics
    gate_in,            \* <<>> or <<arguments and the run's temperature>>
    gate_out,           \* the rows the call stored, in the order of the calls
    \* ---- one call of fit_temperature
    cal_in,             \* <<>> or <<the validation NLL as a function of T>>
    cal_out,            \* <<>> or <<the returned temperature and the path taken>>
    \* ---- one serialisation by export_head
    ser_in,             \* <<>> or <<the float32 weights and bias>>
    ser_out             \* <<>> or <<the head columns dim, num_classes, weights, bias>>

resolver_vars == <<labels_weak, labels_user, q, rows_out>>
run_vars == <<pc, err, head_id, class_order, rows, class_ids, y, dim, train_y, model,
              temperature, gi>>
store_vars == <<classifier_models, classifier_metrics>>
split_vars == <<split_in, split_out>>
gate_vars == <<gate_in, gate_out>>
cal_vars == <<cal_in, cal_out>>
ser_vars == <<ser_in, ser_out>>
call_vars == <<split_vars, gate_vars, cal_vars, ser_vars>>
vars == <<resolver_vars, run_vars, store_vars, call_vars>>

-----------------------------------------------------------------------------
(* SQL NULL / Python None: a nullable column holds <<>> or <<v>>.           *)
NULL == <<>>
Some(v) == <<v>>
IsNull(x) == x = <<>>

-----------------------------------------------------------------------------
(* Bounds of the resolver inputs.                                          *)
MaxWeak == 2

Samples == {1, 2}
Confidences == {1, 2}
RuleIds == {1, 2}
RulesetVersions == {1, 2}
WeakClasses == {"a", "b"}
UserClasses == {"a", "b"}

\* class_id strings in ascending order of SQLite's default (BINARY) collation
LexOrder == <<"a", "b", "c", "z">>
LexRank(c) == CHOOSE i \in 1..Len(LexOrder) : LexOrder[i] = c

WeakRows ==
    [sample_id : Samples, class_id : WeakClasses, confidence : Confidences,
     rule_id : RuleIds, ruleset_version : RulesetVersions]
UserRows == [sample_id : Samples, class_id : UserClasses]

\* table embeddings: every sample has an embedding under "m1", sample 1 also
\* one under "m2"
ModelIds == {"m1", "m2"}
Embeddings ==
    {[sample_id |-> s, model_id |-> "m1"] : s \in Samples}
        \cup {[sample_id |-> 1, model_id |-> "m2"]}

QueryArgs ==
    [model_id : ModelIds, min_confidence : Confidences,
     ruleset_version : RulesetVersions, use_user_labels : BOOLEAN]

-----------------------------------------------------------------------------
(* load_training_rows: the SQL text, evaluated as SQLite evaluates it.     *)

\* WHERE l.ruleset_version = ? AND l.confidence >= ?
Qualifies(l, a) ==
    /\ l.ruleset_version = a.ruleset_version
    /\ l.confidence >= a.min_confidence

\* faulty variant of OrderBefore: ORDER BY l2.confidence DESC, l2.class_id DESC
OrderBefore_ClassDesc(u, v) ==
    \/ u.confidence > v.confidence
    \/ /\ u.confidence = v.confidence
       /\ LexRank(u.class_id) > LexRank(v.class_id)

\* ORDER BY l2.confidence DESC, l2.class_id ASC: row u sorts strictly before v
OrderBefore(u, v) ==
    \/ u.confidence > v.confidence
    \/ /\ u.confidence = v.confidence
       /\ LexRank(u.class_id) < LexRank(v.class_id)

\* the correlated scalar subquery: class_id of the first row in sort order,
\* NULL when no row matches
BestClassSubquery(weak, sid, a) ==
    LET cand == {l2 \in weak : l2.sample_id = sid /\ Qualifies(l2, a)}
    IN  IF cand = {} THEN NULL
        ELSE Some((CHOOSE u \in cand : \A v \in cand : ~OrderBefore(v, u)).class_id)

\* faulty variant of BestWeak: the class_id = (subquery) condition is missing
BestWeak_AllQualifying(weak, a) == {l \in weak : Qualifies(l, a)}

\* WITH best_weak AS (...): every qualifying row whose class is the best class
BestWeak(weak, a) ==
    {l \in weak :
        /\ Qualifies(l, a)
        /\ Some(l.class_id) = BestClassSubquery(weak, l.sample_id, a)}

\* the rows of labels_user / best_weak that join to sample sid; a LEFT JOIN
\* without a match yields one all-NULL row
UserMatches(user, sid) == {u \in user : u.sample_id = sid}
WeakMatches(weak, sid, a) == {w \in BestWeak(weak, a) : w.sample_id = sid}
LeftJoin(matches) == IF matches = {} THEN {NULL} ELSE {Some(x) : x \in matches}

\* label_join and label_filter: the joined rows of sample sid as pairs
\* <<u, w>> of nullable rows
JoinedRows(weak, user, sid, a) ==
    IF a.use_user_labels
    THEN {p \in LeftJoin(UserMatches(user, sid))
                    \X LeftJoin(WeakMatches(weak, sid, a)) :
            ~IsNull(p[1]) \/ ~IsNull(p[2])}
    ELSE {<<NULL, Some(w)>> : w \in WeakMatches(weak, sid, a)}

\* faulty variant of ClassExpr: COALESCE(w.class_id, u.class_id)
ClassExpr_WeakFirst(p, a) ==
    IF ~IsNull(p[2]) THEN p[2][1].class_id ELSE p[1][1].class_id

\* class_expr: COALESCE(u.class_id, w.class_id), or w.class_id
ClassExpr(p, a) ==
    IF a.use_user_labels /\ ~IsNull(p[1]) THEN p[1][1].class_id
    ELSE p[2][1].class_id

RECURSIVE SetToSeq(_)
SetToSeq(S) ==
    IF S = {} THEN <<>>
    ELSE LET x == CHOOSE x \in S : TRUE IN <<x>> \o SetToSeq(S \ {x})

\* the result rows of one sample, one per joined row
SampleRows(weak, user, sid, a) ==
    LET ps == SetToSeq(JoinedRows(weak, user, sid, a))
    IN  [i \in 1..Len(ps) |->
            [sample_id |-> sid, class_id |-> ClassExpr(ps[i], a)]]

MaxSampleId == CHOOSE s \in Samples : \A t \in Samples : t <= s

\* FROM embeddings e ... WHERE e.model_id = ? ... ORDER BY e.sample_id ASC
RECURSIVE RowsFrom(_, _, _, _)
RowsFrom(weak, user, sid, a) ==
    IF sid > MaxSampleId THEN <<>>
    ELSE (IF [sample_id |-> sid, model_id |-> a.model_id] \in Embeddings
          THEN SampleRows(weak, user, sid, a)
          ELSE <<>>)
         \o RowsFrom(weak, user, sid + 1, a)

\* faulty variant of load_training_rows: the user-label join is always used
load_training_rows_AlwaysJoinsUser(weak, user, a) ==
    RowsFrom(weak, user, 1, [a EXCEPT !.use_user_labels = TRUE])

load_training_rows(weak, user, a) == RowsFrom(weak, user, 1, a)

-----------------------------------------------------------------------------
(* The label tables are filled by the application; the training script     *)
(* only reads them.                                                        *)
InsertWeak(l) ==
    /\ IsNull(q)
    /\ l \notin labels_weak
    /\ Cardinality(labels_weak) < MaxWeak
    /\ labels_weak' = labels_weak \cup {l}
    /\ UNCHANGED <<labels_user, q, rows_out, run_vars, store_vars, call_vars>>

\* UserLabel: at most one per sample
InsertUser(u) ==
    /\ IsNull(q)
    /\ UserMatches(labels_user, u.sample_id) = {}
    /\ labels_user' = labels_user \cup {u}
    /\ UNCHANGED <<labels_weak, q, rows_out, run_vars, store_vars, call_vars>>

\* main lines 58-64: one call of load_training_rows
Resolve(a) ==
    /\ IsNull(q)
    /\ q' = Some(a)
    /\ rows_out' = load_training_rows(labels_weak, labels_user, a)
    /\ UNCHANGED <<labels_weak, labels_user, run_vars, store_vars, call_vars>>

-----------------------------------------------------------------------------
(* Training runs.  Each element of Runs is one invocation of main().       *)
Runs == {"r1", "r2"}
HeadIds == {"h1", "h2"}

\* the two command lines: they differ in --model-id and --no-temp-scaling
CommandLine(r) ==
    IF r = "r1" THEN [model_id |-> "m1", no_temp_scaling |-> TRUE]
    ELSE [model_id |-> "m2", no_temp_scaling |-> FALSE]

\* length of the vec blobs stored under each model_id, in float32 values
EmbeddingDim(m) == IF m = "m1" THEN 2 ELSE 3

MaxRows == 3
RowClasses == {"a", "b", "c"}
RECURSIVE SeqsUpTo(_, _)
SeqsUpTo(S, n) ==
    IF n = 0 THEN {<<>>}
    ELSE LET shorter == SeqsUpTo(S, n - 1)
         IN  shorter \cup {Append(t, x) : t \in {u \in shorter : Len(u) = n - 1}, x \in S}
RowLists == SeqsUpTo(RowClasses, MaxRows)

\* classes json: absent file (NULL) or the "id" of each entry of "classes"
ClassesJson ==
    {NULL, Some(<<>>), Some(<<"">>), Some(<<"a", "b", "c">>), Some(<<"b", "", "a">>),
     Some(<<"a", "b", "a">>)}

\* --test-fraction / --val-fraction, in tenths
Fractions == {-1, 0, 1, 9}
\* --l2, in tenths
L2Values == {-10, 0, 10}
\* values scipy's bounded minimize can return for T, in hundredths
FittedTemps == {50}

\* thresholds of log_gating_metrics, in hundredths
thresholds == <<2, 5, 10, 15, 20>>

ConfigErrors == {"DBNotFound", "ClassesJsonNotFound", "NoClasses",
                 "InvalidFractions", "InvalidL2"}
DataErrors == {"NoTrainingData", "NoMatchingClasses", "NoEmbeddingsAfterFiltering",
               "ShapeMismatch", "InsufficientClasses", "SplitError", "FitError"}
StorageErrors == {"SerializationShapeMismatch", "StorageError"}

Range(sq) == {sq[i] : i \in 1..Len(sq)}
IndexOf(sq, x) == CHOOSE i \in 1..Len(sq) : sq[i] = x

\* values a run has not computed yet, or no longer uses
Unset ==
    [head_id |-> NULL, class_order |-> <<>>, rows |-> <<>>, class_ids |-> <<>>,
     y |-> <<>>, dim |-> 0, train_y |-> {}, model |-> NULL, temperature |-> 0,
     gi |-> 0]

\* an uncaught exception: the process exits and its locals are gone
Abort(r, e) ==
    /\ pc' = [pc EXCEPT ![r] = "error"]
    /\ err' = [err EXCEPT ![r] = e]
    /\ head_id' = [head_id EXCEPT ![r] = Unset.head_id]
    /\ class_order' = [class_order EXCEPT ![r] = Unset.class_order]
    /\ rows' = [rows EXCEPT ![r] = Unset.rows]
    /\ class_ids' = [class_ids EXCEPT ![r] = Unset.class_ids]
    /\ y' = [y EXCEPT ![r] = Unset.y]
    /\ dim' = [dim EXCEPT ![r] = Unset.dim]
    /\ train_y' = [train_y EXCEPT ![r] = Unset.train_y]
    /\ model' = [model EXCEPT ![r] = Unset.model]
    /\ temperature' = [temperature EXCEPT ![r] = Unset.temperature]
    /\ gi' = [gi EXCEPT ![r] = Unset.gi]

Goto(r, l) == pc' = [pc EXCEPT ![r] = l]

Init ==
    /\ labels_weak = {}
    /\ labels_user = {}
    /\ q = NULL
    /\ rows_out = <<>>
    /\ pc = [r \in Runs |-> "start"]
    /\ err = [r \in Runs |-> ""]
    /\ head_id = [r \in Runs |-> Unset.head_id]
    /\ class_order = [r \in Runs |-> Unset.class_order]
    /\ rows = [r \in Runs |-> Unset.rows]
    /\ class_ids = [r \in Runs |-> Unset.class_ids]
    /\ y = [r \in Runs |-> Unset.y]
    /\ dim = [r \in Runs |-> Unset.dim]
    /\ train_y = [r \in Runs |-> Unset.train_y]
    /\ model = [r \in Runs |-> Unset.model]
    /\ temperature = [r \in Runs |-> Unset.temperature]
    /\ gi = [r \in Runs |-> Unset.gi]
    /\ classifier_models = {}
    /\ classifier_metrics = {}
    /\ split_in = NULL
    /\ split_out = NULL
    /\ gate_in = NULL
    /\ gate_out = <<>>
    /\ cal_in = NULL
    /\ cal_out = NULL
    /\ ser_in = NULL
    /\ ser_out = NULL

\* main lines 50-52
OpenDb(r) ==
    /\ pc[r] = "start"
    /\ \E db_exists \in BOOLEAN :
        IF ~db_exists THEN Abort(r, "DBNotFound")
        ELSE /\ Goto(r, "load_class_order")
             /\ UNCHANGED <<err, head_id, class_order, rows, class_ids, y, dim,
                            train_y, model, temperature, gi>>
    /\ UNCHANGED <<resolver_vars, store_vars, call_vars>>

\* load_class_order, lines 133-141
LoadClassOrder(r) ==
    /\ pc[r] = "load_class_order"
    /\ \E file \in ClassesJson :
        IF IsNull(file) THEN Abort(r, "ClassesJsonNotFound")
        ELSE LET order == SelectSeq(file[1], LAMBDA id : id # "")
             IN  IF order = <<>> THEN Abort(r, "NoClasses")
                 ELSE /\ class_order' = [class_order EXCEPT ![r] = order]
                      /\ Goto(r, "load_training_rows")
                      /\ UNCHANGED <<err, head_id, rows, class_ids, y, dim,
                                     train_y, model, temperature, gi>>
    /\ UNCHANGED <<resolver_vars, store_vars, call_vars>>

\* main lines 58-66: the class_id column of the fetched rows
LoadTrainingRows(r) ==
    /\ pc[r] = "load_training_rows"
    /\ \E fetched \in RowLists :
        IF fetched = <<>> THEN Abort(r, "NoTrainingData")
        ELSE /\ rows' = [rows EXCEPT ![r] = fetched]
             /\ Goto(r, "build_arrays")
             /\ UNCHANGED <<err, head_id, class_order, class_ids, y, dim,
                            train_y, model, temperature, gi>>
    /\ UNCHANGED <<resolver_vars, store_vars, call_vars>>

\* faulty variant of BuildClassIds: class_order is not restricted to class_set
BuildClassIds_Unfiltered(rs, order) == order

\* build_arrays lines 195-196
BuildClassIds(rs, order) == SelectSeq(order, LAMBDA cid : cid \in Range(rs))
\* build_arrays lines 203-209: the rows that are kept, and their labels
KeptRows(rs, cids) == SelectSeq(rs, LAMBDA c : c \in Range(cids))
\* build_arrays line 199: a dict built from enumerate keeps, for a class_id
\* listed twice, its last index
ClassToIdx(cids, cid) ==
    (CHOOSE i \in 1..Len(cids) :
        cids[i] = cid /\ \A j \in (i + 1)..Len(cids) : cids[j] # cid) - 1
BuildY(rs, cids) ==
    LET kept == KeptRows(rs, cids)
    IN  [i \in 1..Len(kept) |-> ClassToIdx(cids, kept[i])]

\* build_arrays, lines 189-215.  corrupt = index of a kept row whose vec blob
\* has one float more than the others (0: none)
BuildArrays(r) ==
    /\ pc[r] = "build_arrays"
    /\ LET cids == BuildClassIds(rows[r], class_order[r])
           kept == KeptRows(rows[r], cids)
           d == EmbeddingDim(CommandLine(r).model_id)
       IN  IF cids = <<>> THEN Abort(r, "NoMatchingClasses")
           ELSE IF kept = <<>> THEN Abort(r, "NoEmbeddingsAfterFiltering")
           ELSE \E corrupt \in 0..Len(kept) :
                LET veclen == [i \in 1..Len(kept) |-> IF i = corrupt THEN d + 1 ELSE d]
                IN  IF \E i \in 1..Len(kept) : veclen[i] # veclen[1]
                    THEN Abort(r, "ShapeMismatch")
                    ELSE /\ class_ids' = [class_ids EXCEPT ![r] = cids]
                         /\ y' = [y EXCEPT ![r] = BuildY(rows[r], cids)]
                         /\ dim' = [dim EXCEPT ![r] = veclen[1]]
                         /\ Goto(r, "check_classes")
                         /\ UNCHANGED <<err, head_id, class_order, rows, train_y,
                                        model, temperature, gi>>
    /\ UNCHANGED <<resolver_vars, store_vars, call_vars>>

\* faulty variant of CheckClasses: len(set(y)) < 1
CheckClasses_OffByOne(r) ==
    /\ pc[r] = "check_classes"
    /\ IF Cardinality(Range(y[r])) < 1 THEN Abort(r, "InsufficientClasses")
       ELSE /\ Goto(r, "split_stratified")
            /\ rows' = [rows EXCEPT ![r] = Unset.rows]
            /\ UNCHANGED <<err, head_id, class_order, class_ids, y, dim,
                           train_y, model, temperature, gi>>
    /\ UNCHANGED <<resolver_vars, store_vars, call_vars>>

\* main lines 69-70
CheckClasses(r) ==
    /\ pc[r] = "check_classes"
    /\ IF Cardinality(Range(y[r])) < 2 THEN Abort(r, "InsufficientClasses")
       ELSE /\ Goto(r, "split_stratified")
            /\ rows' = [rows EXCEPT ![r] = Unset.rows]
            /\ UNCHANGED <<err, head_id, class_order, class_ids, y, dim,
                           train_y, model, temperature, gi>>
    /\ UNCHANGED <<resolver_vars, store_vars, call_vars>>

\* split_stratified line 224
InvalidFractions(tf, vf) == tf < 0 \/ vf < 0 \/ tf + vf >= 10

\* split_stratified, lines 218-238.  sklearn's train_test_split either raises
\* or returns; of its result the run keeps the classes present in train["y"]
SplitStratified(r) ==
    /\ pc[r] = "split_stratified"
    /\ \E tf \in Fractions, vf \in Fractions :
        IF InvalidFractions(tf, vf) THEN Abort(r, "InvalidFractions")
        ELSE \/ Abort(r, "SplitError")
             \/ \E present \in SUBSET Range(y[r]) :
                   /\ present # {}
                   /\ train_y' = [train_y EXCEPT ![r] = present]
                   /\ y' = [y EXCEPT ![r] = Unset.y]
                   /\ Goto(r, "train_logreg")
                   /\ UNCHANGED <<err, head_id, class_order, rows, class_ids, dim,
                                  model, temperature, gi>>
    /\ UNCHANGED <<resolver_vars, store_vars, call_vars>>

\* LogisticRegression.fit: coef_ has one row for a binary problem, else one
\* row per class; intercept_ has as many entries as coef_ has rows
FitShape(k, d) ==
    LET n == IF k = 2 THEN 1 ELSE k
    IN  [coef_shape |-> <<n, d>>, intercept_shape |-> <<n>>]

\* train_logreg, lines 241-260
TrainLogreg(r) ==
    /\ pc[r] = "train_logreg"
    /\ \E l2 \in L2Values :
        IF l2 <= 0 THEN Abort(r, "InvalidL2")
        ELSE IF Cardinality(train_y[r]) < 2 THEN Abort(r, "FitError")
        ELSE /\ model' = [model EXCEPT ![r] =
                    Some(FitShape(Cardinality(train_y[r]), dim[r]))]
             /\ train_y' = [train_y EXCEPT ![r] = Unset.train_y]
             /\ Goto(r, "print_metrics")
             /\ UNCHANGED <<err, head_id, class_order, rows, class_ids, y, dim,
                            temperature, gi>>
    /\ UNCHANGED <<resolver_vars, store_vars, call_vars>>

\* main lines 84-86: three calls of print_metrics
PrintMetrics(r) ==
    /\ pc[r] = "print_metrics"
    /\ Goto(r, "fit_temperature")
    /\ UNCHANGED <<err, head_id, class_order, rows, class_ids, y, dim, train_y,
                   model, temperature, gi>>
    /\ UNCHANGED <<resolver_vars, store_vars, call_vars>>

\* faulty variant of FitTemperature: --no-temp-scaling is not looked at
FitTemperature_IgnoresFlag(r) ==
    /\ pc[r] = "fit_temperature"
    /\ \E t \in FittedTemps \cup {100} :
            temperature' = [temperature EXCEPT ![r] = t]
    /\ Goto(r, "export_head")
    /\ UNCHANGED <<err, head_id, class_order, rows, class_ids, y, dim, train_y,
                   model, gi>>
    /\ UNCHANGED <<resolver_vars, store_vars, call_vars>>

\* main lines 88-91; fit_temperature returns 1.0 or the optimiser's T
FitTemperature(r) ==
    /\ pc[r] = "fit_temperature"
    /\ IF CommandLine(r).no_temp_scaling
       THEN temperature' = [temperature EXCEPT ![r] = 100]
       ELSE \E t \in FittedTemps \cup {100} :
                temperature' = [temperature EXCEPT ![r] = t]
    /\ Goto(r, "export_head")
    /\ UNCHANGED <<err, head_id, class_order, rows, class_ids, y, dim, train_y,
                   model, gi>>
    /\ UNCHANGED <<resolver_vars, store_vars, call_vars>>

-----------------------------------------------------------------------------
(* The store.  A table is the set of its committed rows.  Every value a    *)
(* run computes from its own data (coefficients, accuracy, coverage,       *)
(* precision, timestamp) is written as the name of the run that computed   *)
(* it, so rows written by different runs differ.                           *)

\* bytes of one np.float32 value, export_head lines 381-382
ItemSize == 4

\* ndarray.tobytes of a float32 array with n values fitted by run r,
\* export_head lines 392-393: the run's values, ItemSize bytes each
ToBytes(r, n) == [fitted_by |-> r, nbytes |-> n * ItemSize]

\* the parameter tuple of export_head's INSERT, lines 406-415
HeadRow(r, h) ==
    [head_id |-> h,
     model_id |-> CommandLine(r).model_id,
     dim |-> model[r][1].coef_shape[2],
     num_classes |-> model[r][1].coef_shape[1],
     norm |-> "l2",
     temperature |-> temperature[r],
     weights |-> ToBytes(r, model[r][1].coef_shape[1] * model[r][1].coef_shape[2]),
     bias |-> ToBytes(r, model[r][1].intercept_shape[1])]

\* faulty variant of UpdateHead: "bias = excluded.bias" is missing from the SET list
UpdateHead_KeepsBias(old, new) ==
    [old EXCEPT !.model_id = new.model_id,
                !.dim = new.dim,
                !.num_classes = new.num_classes,
                !.norm = new.norm,
                !.temperature = new.temperature,
                !.weights = new.weights]

\* ON CONFLICT(head_id) DO UPDATE SET ..., lines 398-405
UpdateHead(old, new) ==
    [old EXCEPT !.model_id = new.model_id,
                !.dim = new.dim,
                !.num_classes = new.num_classes,
                !.norm = new.norm,
                !.temperature = new.temperature,
                !.weights = new.weights,
                !.bias = new.bias]

\* faulty variant of UpsertHead: the other rows of the table are deleted
UpsertHead_DeletesOthers(table, new) == {new}

\* INSERT INTO classifier_models ... ON CONFLICT(head_id) DO UPDATE, lines 395-416
UpsertHead(table, new) ==
    IF \E old \in table : old.head_id = new.head_id
    THEN {IF old.head_id = new.head_id THEN UpdateHead(old, new) ELSE old : old \in table}
    ELSE table \cup {new}

\* the parameter tuple of store_metrics's INSERT, line 330
MetricRow(h, split, accuracy, coverage, precision, threshold, created_at) ==
    [head_id |-> h, split |-> split, accuracy |-> accuracy, coverage |-> coverage,
     precision |-> precision, threshold |-> threshold, created_at |-> created_at]

\* faulty variant of Conflicts: the conflict target is (split, threshold) only
Conflicts_IgnoresHeadId(old, new) ==
    /\ old.split = new.split
    /\ ~IsNull(old.threshold)
    /\ ~IsNull(new.threshold)
    /\ old.threshold = new.threshold

\* the unique index (head_id, split, threshold) named by ON CONFLICT, line 325:
\* SQLite never finds two rows equal on a unique index when a column is NULL
Conflicts(old, new) ==
    /\ old.head_id = new.head_id
    /\ old.split = new.split
    /\ ~IsNull(old.threshold)
    /\ ~IsNull(new.threshold)
    /\ old.threshold = new.threshold

\* DO UPDATE SET ..., lines 325-329
UpdateMetric(old, new) ==
    [old EXCEPT !.accuracy = new.accuracy,
                !.coverage = new.coverage,
                !.precision = new.precision,
                !.created_at = new.created_at]

\* store_metrics, lines 321-332
UpsertMetric(table, new) ==
    IF \E old \in table : Conflicts(old, new)
    THEN {IF Conflicts(old, new) THEN UpdateMetric(old, new) ELSE old : old \in table}
    ELSE table \cup {new}

\* faulty variant of ShapeMismatch: the comparison with len(class_ids) is missing
ShapeMismatch_NoClassIdsCheck(m, cids) ==
    \/ Len(m.coef_shape) # 2
    \/ m.intercept_shape[1] # m.coef_shape[1]

\* export_head lines 383-390
ShapeMismatch(m, cids) ==
    \/ Len(m.coef_shape) # 2
    \/ m.intercept_shape[1] # m.coef_shape[1]
    \/ m.coef_shape[1] # Len(cids)

\* faulty variant of ExportHead: l2 is validated only after the head was committed
ExportHead_ValidatesL2Late(r) ==
    /\ pc[r] = "export_head"
    /\ \E h \in HeadIds, l2 \in L2Values :
        /\ classifier_models' = UpsertHead(classifier_models, HeadRow(r, h))
        /\ IF l2 <= 0
           THEN Abort(r, "InvalidL2")
           ELSE /\ head_id' = [head_id EXCEPT ![r] = Some(h)]
                /\ Goto(r, "store_train")
                /\ UNCHANGED <<err, class_order, rows, class_ids, y, dim, train_y,
                               model, temperature, gi>>
    /\ UNCHANGED <<classifier_metrics, resolver_vars, call_vars>>

\* faulty variant of ExportHead: the shape checks run after the INSERT
ExportHead_ChecksAfterInsert(r) ==
    /\ pc[r] = "export_head"
    /\ \E h \in HeadIds :
        /\ classifier_models' = UpsertHead(classifier_models, HeadRow(r, h))
        /\ IF ShapeMismatch(model[r][1], class_ids[r])
           THEN Abort(r, "SerializationShapeMismatch")
           ELSE /\ head_id' = [head_id EXCEPT ![r] = Some(h)]
                /\ Goto(r, "store_train")
                /\ UNCHANGED <<err, class_order, rows, class_ids, y, dim, train_y,
                               model, temperature, gi>>
    /\ UNCHANGED <<classifier_metrics, resolver_vars, call_vars>>

\* main lines 93-101 and export_head, lines 378-417
ExportHead(r) ==
    /\ pc[r] = "export_head"
    /\ \E h \in HeadIds :
        IF ShapeMismatch(model[r][1], class_ids[r])
        THEN /\ Abort(r, "SerializationShapeMismatch")
             /\ UNCHANGED store_vars
        ELSE /\ classifier_models' = UpsertHead(classifier_models, HeadRow(r, h))
             /\ head_id' = [head_id EXCEPT ![r] = Some(h)]
             /\ Goto(r, "store_train")
             /\ UNCHANGED <<err, class_order, rows, class_ids, y, dim, train_y,
                            model, temperature, gi, classifier_metrics>>
    /\ UNCHANGED <<resolver_vars, call_vars>>

\* main lines 103-105: the three accuracy rows, in this order
AccuracySplits == <<"train", "val", "test">>
AccuracyPcs == <<"store_train", "store_val", "store_test">>
\* main lines 106-107: the splits log_gating_metrics is called for
GatingSplits == <<"val", "test">>
GatingPcs == <<"gate_val", "gate_test">>

StorePcs == {"export_head"} \cup Range(AccuracyPcs) \cup Range(GatingPcs)

\* one call store_metrics(conn, head_id, split, acc, None, None, None, created_at)
StoreAccuracy(r) ==
    /\ pc[r] \in Range(AccuracyPcs)
    /\ LET k == IndexOf(AccuracyPcs, pc[r])
       IN  /\ classifier_metrics' =
                UpsertMetric(classifier_metrics,
                    MetricRow(head_id[r][1], AccuracySplits[k], Some(r), NULL, NULL,
                              NULL, r))
           /\ IF k < Len(AccuracyPcs)
              THEN Goto(r, AccuracyPcs[k + 1]) /\ UNCHANGED gi
              ELSE Goto(r, GatingPcs[1]) /\ gi' = [gi EXCEPT ![r] = 1]
    /\ UNCHANGED <<err, head_id, class_order, rows, class_ids, y, dim, train_y,
                   model, temperature, classifier_models, resolver_vars, call_vars>>

\* log_gating_metrics, lines 283-308: one iteration of the loop over thresholds
LogGatingMetrics(r) ==
    /\ pc[r] \in Range(GatingPcs)
    /\ LET k == IndexOf(GatingPcs, pc[r])
       IN  /\ classifier_metrics' =
                UpsertMetric(classifier_metrics,
                    MetricRow(head_id[r][1], GatingSplits[k], NULL, Some(r), Some(r),
                              Some(thresholds[gi[r]]), r))
           /\ IF gi[r] < Len(thresholds)
              THEN gi' = [gi EXCEPT ![r] = gi[r] + 1] /\ UNCHANGED pc
              ELSE IF k < Len(GatingPcs)
              THEN gi' = [gi EXCEPT ![r] = 1] /\ Goto(r, GatingPcs[k + 1])
              ELSE gi' = [gi EXCEPT ![r] = 0] /\ Goto(r, "done")
    /\ UNCHANGED <<err, head_id, class_order, rows, class_ids, y, dim, train_y,
                   model, temperature, classifier_models, resolver_vars, call_vars>>

\* cur.execute or conn.commit raises (disk full, database locked, ...): the
\* open transaction is never committed
StoreFail(r) ==
    /\ pc[r] \in StorePcs
    /\ Abort(r, "StorageError")
    /\ UNCHANGED <<store_vars, resolver_vars, call_vars>>

RunStep(r) ==
    \/ OpenDb(r)
    \/ LoadClassOrder(r)
    \/ LoadTrainingRows(r)
    \/ BuildArrays(r)
    \/ CheckClasses(r)
    \/ SplitStratified(r)
    \/ TrainLogreg(r)
    \/ PrintMetrics(r)
    \/ FitTemperature(r)
    \/ ExportHead(r)
    \/ StoreAccuracy(r)
    \/ LogGatingMetrics(r)
    \/ StoreFail(r)

Next == \E r \in Runs : RunStep(r)

Spec == Init /\ [][Next]_vars

NextResolver ==
    \/ \E l \in WeakRows : InsertWeak(l)
    \/ \E u \in UserRows : InsertUser(u)
    \/ \E a \in QueryArgs : Resolve(a)

SpecResolver == Init /\ [][NextResolver]_vars

-----------------------------------------------------------------------------
(* split_stratified as a function.  The dataset is the label vector y; row *)
(* i of X is written as its index i.  An array is a sequence; the arrays   *)
(* train_test_split returns are given in ascending order of position (the  *)
(* order a seeded shuffle puts them in is left out).                       *)
MaxSplitN == 6
SplitLabels == {0, 1}
\* --test-fraction / --val-fraction, in tenths
SplitFractions == {-1, 0, 2, 3, 9}

\* label vectors main passes on: at least two distinct labels (lines 69-70)
SplitDatasets ==
    {v \in SeqsUpTo(SplitLabels, MaxSplitN) : Cardinality(Range(v)) >= 2}

CeilDiv(a, b) == (a + b - 1) \div b

RECURSIVE SumOver(_, _)
SumOver(f, S) ==
    IF S = {} THEN 0
    ELSE LET c == CHOOSE x \in S : TRUE IN f[c] + SumOver(f, S \ {c})

\* the elements of arr at the positions P, in ascending order of position
Take(arr, P) ==
    LET F[k \in 0..Len(arr)] ==
            IF k = 0 THEN <<>>
            ELSE IF k \in P THEN Append(F[k - 1], arr[k]) ELSE F[k - 1]
    IN  F[Len(arr)]

\* sklearn _approximate_mode: n_draws spread over the classes in proportion
\* to counts; the draws left after rounding down go to the classes with the
\* largest remainders, ties broken by the random state
ApproximateMode(counts, n_draws) ==
    LET cs == DOMAIN counts
        n == SumOver(counts, cs)
        floored == [c \in cs |-> (counts[c] * n_draws) \div n]
        remainder == [c \in cs |-> (counts[c] * n_draws) % n]
        need_to_add == n_draws - SumOver(floored, cs)
    IN  {[c \in cs |-> floored[c] + (IF c \in A THEN 1 ELSE 0)] :
            A \in {B \in SUBSET cs :
                    /\ Cardinality(B) = need_to_add
                    /\ \A a \in B, b \in cs \ B : remainder[a] >= remainder[b]}}

\* sklearn train_test_split(X, y, test_size = num / den, random_state = seed,
\* stratify = y): the set of results over all seeds; empty when it raises
\* ValueError (test_size outside (0, 1), an empty train set, a class with
\* fewer than 2 members, fewer train or test samples than classes)
train_test_split(X, ys, num, den) ==
    LET n == Len(ys)
        n_test == CeilDiv(num * n, den)
        n_train == n - n_test
        cs == Range(ys)
        class_counts == [c \in cs |-> Cardinality({i \in 1..n : ys[i] = c})]
    IN  IF num <= 0 \/ num >= den \/ n_train = 0 THEN {}
        ELSE IF \E c \in cs : class_counts[c] < 2 THEN {}
        ELSE IF n_train < Cardinality(cs) \/ n_test < Cardinality(cs) THEN {}
        ELSE {[X_train |-> Take(X, P), X_test |-> Take(X, (1..n) \ P),
               y_train |-> Take(ys, P), y_test |-> Take(ys, (1..n) \ P)] :
                P \in {Q \in SUBSET (1..n) :
                        \E n_i \in ApproximateMode(class_counts, n_train) :
                            \A c \in cs :
                                Cardinality({i \in Q : ys[i] = c}) = n_i[c]}}

SplitFailed(e) ==
    [error |-> e,
     train |-> [X |-> <<>>, y |-> <<>>],
     val |-> [X |-> <<>>, y |-> <<>>],
     test |-> [X |-> <<>>, y |-> <<>>]]

\* faulty variant of split_stratified: the second call splits X, y again
\* instead of X_train, y_train
split_stratified_ResplitsFull(X, ys, test_fraction, val_fraction) ==
    IF InvalidFractions(test_fraction, val_fraction)
    THEN {SplitFailed("InvalidFractions")}
    ELSE LET first == train_test_split(X, ys, test_fraction, 10)
         IN  IF first = {} THEN {SplitFailed("SplitError")}
             ELSE UNION {
                LET second == train_test_split(X, ys, val_fraction,
                                               10 - test_fraction)
                IN  IF second = {} THEN {SplitFailed("SplitError")}
                    ELSE {[error |-> "",
                           train |-> [X |-> b.X_train, y |-> b.y_train],
                           val |-> [X |-> b.X_test, y |-> b.y_test],
                           test |-> [X |-> a.X_test, y |-> a.y_test]] : b \in second}
                : a \in first}

\* split_stratified, lines 218-238: what the call can return or raise.
\* val_ratio = val_fraction / (1 - test_fraction), fractions in tenths
split_stratified(X, ys, test_fraction, val_fraction) ==
    IF InvalidFractions(test_fraction, val_fraction)
    THEN {SplitFailed("InvalidFractions")}
    ELSE LET first == train_test_split(X, ys, test_fraction, 10)
         IN  IF first = {} THEN {SplitFailed("SplitError")}
             ELSE UNION {
                LET second == train_test_split(a.X_train, a.y_train, val_fraction,
                                               10 - test_fraction)
                IN  IF second = {} THEN {SplitFailed("SplitError")}
                    ELSE {[error |-> "",
                           train |-> [X |-> b.X_train, y |-> b.y_train],
                           val |-> [X |-> b.X_test, y |-> b.y_test],
                           test |-> [X |-> a.X_test, y |-> a.y_test]] : b \in second}
                : a \in first}

\* main lines 68-74: the arguments of one call
CallSplit ==
    /\ IsNull(split_in)
    /\ \E v \in SplitDatasets, tf \in SplitFractions, vf \in SplitFractions :
            split_in' = Some([X |-> [i \in 1..Len(v) |-> i], y |-> v,
                             test_fraction |-> tf, val_fraction |-> vf])
    /\ UNCHANGED <<split_out, resolver_vars, run_vars, store_vars, gate_vars, cal_vars,
                   ser_vars>>

\* the call returns or raises
ReturnSplit ==
    /\ ~IsNull(split_in)
    /\ IsNull(split_out)
    /\ \E res \in split_stratified(split_in[1].X, split_in[1].y,
                                    split_in[1].test_fraction,
                                    split_in[1].val_fraction) :
            split_out' = Some(res)
    /\ UNCHANGED <<split_in, resolver_vars, run_vars, store_vars, gate_vars, cal_vars,
                   ser_vars>>

NextSplit ==
    \/ CallSplit
    \/ ReturnSplit

SpecSplit == Init /\ [][NextSplit]_vars

-----------------------------------------------------------------------------
(* log_gating_metrics as a function.  A sample is the logit vector the     *)
(* model gives it (decision_function, in tenths) and its label.            *)
MaxGateN == 3
\* logit vectors whose margins at T = 1 lie in each of the six bands the five
\* thresholds cut out
GateLogits ==
    {<<0, 0, 0>>, <<1, 0, 0>>, <<2, 0, 0>>, <<0, 3, -10>>, <<5, 0, -5>>, <<10, 0, 0>>}
GateLabels == {0, 1}
\* temperatures a run can have fitted, in hundredths
GateTemps == {50, 100, 200}

GateSamples == [z : GateLogits, label : GateLabels]
GateDatasets == SeqsUpTo(GateSamples, MaxGateN) \ {<<>>}

\* P(top1) - P(top2) of softmax(z / T), in 1/10000 rounded down
SoftmaxMargin(z, T) ==
    CASE z = <<0, 0, 0>> -> 0
      [] z = <<1, 0, 0>> -> (CASE T = 50 -> 687 [] T = 100 -> 338 [] T = 200 -> 168)
      [] z = <<2, 0, 0>> -> (CASE T = 50 -> 1408 [] T = 100 -> 687 [] T = 200 -> 338)
      [] z = <<10, 0, 0>> -> (CASE T = 50 -> 6804 [] T = 100 -> 3641 [] T = 200 -> 1777)
      [] z = <<0, 3, -10>> -> (CASE T = 50 -> 2779 [] T = 100 -> 1287 [] T = 200 -> 584)
      [] z = <<5, 0, -5>> -> (CASE T = 50 -> 4205 [] T = 100 -> 1992 [] T = 200 -> 927)

\* numpy argmax: the first index (from 0) of the largest entry
ArgMax(z) ==
    (CHOOSE i \in 1..Len(z) :
        /\ \A j \in 1..Len(z) : z[j] <= z[i]
        /\ \A j \in 1..(i - 1) : z[j] < z[i]) - 1

\* lines 289-295: model.predict_proba(X) is softmax(logits), the temperature
\* is no argument of log_gating_metrics
Margins(samples) == [k \in 1..Len(samples) |-> SoftmaxMargin(samples[k].z, 100)]
\* lines 296-297
Correct(samples) == [k \in 1..Len(samples) |-> ArgMax(samples[k].z) = samples[k].label]

\* faulty variant of GatingRow: covered = margins <= t
GatingRow_CoversBelow(margins, correct, t) ==
    LET covered == {k \in DOMAIN margins : margins[k] <= t * 100}
    IN  [threshold |-> t,
         coverage |-> [num |-> Cardinality(covered), den |-> Len(margins)],
         precision |->
            IF covered # {}
            THEN Some([num |-> Cardinality({k \in covered : correct[k]}),
                       den |-> Cardinality(covered)])
            ELSE NULL]

\* faulty variant of GatingRow: precision = correct.mean() over all samples
GatingRow_PrecisionOverAll(margins, correct, t) ==
    LET covered == {k \in DOMAIN margins : margins[k] >= t * 100}
    IN  [threshold |-> t,
         coverage |-> [num |-> Cardinality(covered), den |-> Len(margins)],
         precision |->
            Some([num |-> Cardinality({k \in DOMAIN margins : correct[k]}),
                  den |-> Len(margins)])]

\* lines 301-304: the coverage, precision and threshold passed to
\* store_metrics; a mean is written as numerator and denominator, t is in
\* hundredths
GatingRow(margins, correct, t) ==
    LET covered == {k \in DOMAIN margins : margins[k] >= t * 100}
    IN  [threshold |-> t,
         coverage |-> [num |-> Cardinality(covered), den |-> Len(margins)],
         precision |->
            IF covered # {}
            THEN Some([num |-> Cardinality({k \in covered : correct[k]}),
                       den |-> Cardinality(covered)])
            ELSE NULL]

\* main lines 106-107: one call, by a run that fitted temperature T
CallGating ==
    /\ IsNull(gate_in)
    /\ \E samples \in GateDatasets, T \in GateTemps :
            gate_in' = Some([samples |-> samples, temperature |-> T])
    /\ UNCHANGED <<gate_out, resolver_vars, run_vars, store_vars, split_vars, cal_vars,
                   ser_vars>>

\* lines 300-304: one iteration of the loop over thresholds
GateThreshold ==
    /\ ~IsNull(gate_in)
    /\ Len(gate_out) < Len(thresholds)
    /\ gate_out' = Append(gate_out,
            GatingRow(Margins(gate_in[1].samples), Correct(gate_in[1].samples),
                      thresholds[Len(gate_out) + 1]))
    /\ UNCHANGED <<gate_in, resolver_vars, run_vars, store_vars, split_vars, cal_vars,
                   ser_vars>>

NextGating ==
    \/ CallGating
    \/ GateThreshold

SpecGating == Init /\ [][NextGating]_vars

-----------------------------------------------------------------------------
(* fit_temperature as a function.  The model and the validation split      *)
(* enter through nll, the validation loss as a function of the             *)
(* temperature; temperatures are in hundredths, losses are levels 1..MaxLoss. *)
MaxLoss == 3

\* best_t before the search, line 354
InitialTemp == 100
\* bounds=[(0.05, 10.0)], line 359
MinTemp == 5
MaxTemp == 1000
\* np.logspace(-1.3, 0.7, num=40), line 364: first, one inner and last value
LogspaceGrid == <<5, 80, 501>>
\* temperatures the bounded optimiser can stop at
OptimizerTemps == {MinTemp, 40, InitialTemp, MaxTemp}

CalTemps == {InitialTemp} \cup Range(LogspaceGrid) \cup OptimizerTemps
NllFunctions == [CalTemps -> 1..MaxLoss]

\* scipy.optimize.minimize(f, x0, bounds): it raises (scipy missing or an
\* error inside), or returns a result with a success flag and a point x
\* within the bounds that is no worse than x0 (the line search of L-BFGS-B
\* only accepts steps that decrease f)
Minimize(nll, x0, lo, hi) ==
    {[raised |-> TRUE, success |-> FALSE, x |-> x0]}
        \cup {[raised |-> FALSE, success |-> b, x |-> t] :
                b \in BOOLEAN,
                t \in {u \in OptimizerTemps : lo <= u /\ u <= hi /\ nll[u] <= nll[x0]}}

\* faulty variant of GridSearch: the comparison loss < best_loss is missing
GridSearch_TakesLast(nll, best_t, grid) ==
    IF grid = <<>> THEN best_t ELSE grid[Len(grid)]

\* lines 364-368: best_t after the loop over the grid
GridSearch(nll, best_t, grid) ==
    LET F[k \in 0..Len(grid)] ==
            IF k = 0 THEN best_t
            ELSE IF nll[grid[k]] < nll[F[k - 1]] THEN grid[k] ELSE F[k - 1]
    IN  F[Len(grid)]

\* fit_temperature, lines 354-369: the values it can return, each with the
\* path taken
fit_temperature(nll) ==
    {IF res.raised
     THEN [path |-> "grid", t |-> GridSearch(nll, InitialTemp, LogspaceGrid)]
     ELSE IF res.success
     THEN [path |-> "success", t |-> res.x]
     ELSE [path |-> "failure", t |-> InitialTemp] :
        res \in Minimize(nll, InitialTemp, MinTemp, MaxTemp)}

\* main line 90: one call; the fitted model and the validation split fix nll
CallFitTemperature ==
    /\ IsNull(cal_in)
    /\ \E nll \in NllFunctions : cal_in' = Some(nll)
    /\ UNCHANGED <<cal_out, resolver_vars, run_vars, store_vars, split_vars, gate_vars,
                   ser_vars>>

\* the call returns
ReturnFitTemperature ==
    /\ ~IsNull(cal_in)
    /\ IsNull(cal_out)
    /\ \E res \in fit_temperature(cal_in[1]) : cal_out' = Some(res)
    /\ UNCHANGED <<cal_in, resolver_vars, run_vars, store_vars, split_vars, gate_vars,
                   ser_vars>>

NextCalibrator ==
    \/ CallFitTemperature
    \/ ReturnFitTemperature

SpecCalibrator == Init /\ [][NextCalibrator]_vars

-----------------------------------------------------------------------------
(* The serialisation of export_head as a function.  A float32 value is its *)
(* 32-bit pattern; a blob is a sequence of bytes.                          *)
MaxHeadClasses == 3
MaxHeadDim == 2
\* the bit patterns of 1.0 and of a value whose four bytes differ
Float32Values == {1065353216, 16909060}

Matrices(C, D) == [1..C -> [1..D -> Float32Values]]
Vectors(C) == [1..C -> Float32Values]

\* the four bytes tobytes writes for one float32 value on a little-endian
\* host, least significant first
Float32Bytes(v) ==
    <<v % 256, (v \div 256) % 256, (v \div 65536) % 256, (v \div 16777216) % 256>>

\* faulty variant of Flatten: column-major order (order="F")
Flatten_ColumnMajor(W) ==
    LET C == Len(W)
        D == Len(W[1])
    IN  [k \in 1..(C * D) |-> W[((k - 1) % C) + 1][((k - 1) \div C) + 1]]

\* weights.reshape(-1), line 392: row after row
Flatten(W) ==
    LET C == Len(W)
        D == Len(W[1])
    IN  [k \in 1..(C * D) |-> W[((k - 1) \div D) + 1][((k - 1) % D) + 1]]

\* ndarray.tobytes(order="C") of a 1-d float32 array, lines 392-393
tobytes(flat) ==
    [n \in 1..(4 * Len(flat)) |-> Float32Bytes(flat[((n - 1) \div 4) + 1])[((n - 1) % 4) + 1]]

\* export_head lines 385-393 and 409-414: the columns computed from the arrays
Serialize(W, b) ==
    [dim |-> Len(W[1]),
     num_classes |-> Len(W),
     weights |-> tobytes(Flatten(W)),
     bias |-> tobytes(b)]

\* the reader's side: np.frombuffer(blob, dtype="<f4"), the float at index k
\* (from 0) of a blob
FloatAt(blob, k) ==
    blob[4 * k + 1] + 256 * blob[4 * k + 2] + 65536 * blob[4 * k + 3]
        + 16777216 * blob[4 * k + 4]
frombuffer(blob) == [k \in 1..(Len(blob) \div 4) |-> FloatAt(blob, k - 1)]
\* reshape(num_classes, dim), row-major
Reshape(flat, C, D) == [c \in 1..C |-> [d \in 1..D |-> flat[(c - 1) * D + d]]]

\* export_head lines 381-382: the float32 copies of coef_ and intercept_
CallSerialize ==
    /\ IsNull(ser_in)
    /\ \E C \in 1..MaxHeadClasses, D \in 1..MaxHeadDim :
        \E W \in Matrices(C, D), b \in Vectors(C) :
            ser_in' = Some([weights |-> W, bias |-> b])
    /\ UNCHANGED <<ser_out, resolver_vars, run_vars, store_vars, split_vars, gate_vars,
                   cal_vars>>

\* export_head lines 385-415
ReturnSerialize ==
    /\ ~IsNull(ser_in)
    /\ IsNull(ser_out)
    /\ ser_out' = Some(Serialize(ser_in[1].weights, ser_in[1].bias))
    /\ UNCHANGED <<ser_in, resolver_vars, run_vars, store_vars, split_vars, gate_vars,
                   cal_vars>>

NextSerialize ==
    \/ CallSerialize
    \/ ReturnSerialize

SpecSerialize == Init /\ [][NextSerialize]_vars

-----------------------------------------------------------------------------
(* Properties of the store and of the runs, checked under Spec.            *)

\* the committed rows that hold values computed by run r
HeadRowsOf(r) == {m \in classifier_models : m.weights.fitted_by = r}
MetricRowsOf(r) == {x \in classifier_metrics : x.created_at = r}
NoRowsOf(r) == HeadRowsOf(r) = {} /\ MetricRowsOf(r) = {}

\* the (split, threshold) keys one run writes: main lines 103-107
RunMetricKeys ==
    {<<AccuracySplits[i], NULL>> : i \in 1..Len(AccuracySplits)}
        \cup {<<GatingSplits[i], Some(thresholds[j])>> :
                i \in 1..Len(GatingSplits), j \in 1..Len(thresholds)}

AllMetricsOf(r, h) ==
    \A k \in RunMetricKeys :
        \E x \in MetricRowsOf(r) :
            x.head_id = h /\ x.split = k[1] /\ x.threshold = k[2]

\* C1: in every committed state, a run's rows are either all invisible or
\* its head row and all of its metric rows are visible together.
C1_WriteSetAtomic ==
    \A r \in Runs :
        \/ NoRowsOf(r)
        \/ \E m \in HeadRowsOf(r) : AllMetricsOf(r, m.head_id)

\* C2: a run that aborted on a failed store write has left none of its rows
\* in the store.
C2_NothingPersistedOnStorageError ==
    \A r \in Runs : (pc[r] = "error" /\ err[r] = "StorageError") => NoRowsOf(r)

\* the configuration and data errors of main, load_class_order, build_arrays,
\* split_stratified and train_logreg
AbortsBeforePersistence ==
    {"ClassesJsonNotFound", "NoClasses", "NoTrainingData", "NoMatchingClasses",
     "ShapeMismatch", "InsufficientClasses", "InvalidFractions", "InvalidL2"}

\* C3: a run that ended in a configuration or data error has written no row
\* to classifier_models or classifier_metrics.
C3_ConfigDataErrorsBeforeAnyWrite ==
    \A r \in Runs :
        (pc[r] = "error" /\ err[r] \in AbortsBeforePersistence) => NoRowsOf(r)

\* C3 witness: a run aborted on the last check before the store (l2 <= 0)
\* while the other run has a head row in the store.
C3_Witness ==
    \E r \in Runs :
        /\ pc[r] = "error"
        /\ err[r] = "InvalidL2"
        /\ classifier_models # {}

OneClass(rs) == Cardinality(Range(rs)) = 1
BuilderPcs == {"build_arrays", "check_classes"}

\* C7 as stated: a run whose fetched rows hold one distinct class_id leaves
\* the dataset builder only by raising the insufficient-classes error.
C7_OneClassRaisesInsufficientClasses ==
    [][\A r \in Runs :
        (pc[r] \in BuilderPcs /\ OneClass(rows[r]) /\ pc'[r] \notin BuilderPcs)
            => (pc'[r] = "error" /\ err'[r] = "InsufficientClasses")]_vars

\* C7 amended: a run whose fetched rows hold one distinct class_id never
\* reaches the splitter, the trainer or the store.  It aborts inside
\* build_arrays with the no-matching-classes error exactly when the class is
\* not in class_order, or with a shape mismatch; once build_arrays has
\* returned it aborts with the insufficient-classes error.  In each case the
\* run has written no row.
C7_OneClassAbortsBeforeSplit ==
    [][\A r \in Runs :
        (pc[r] \in BuilderPcs /\ OneClass(rows[r]) /\ pc'[r] \notin BuilderPcs)
            => /\ pc'[r] = "error"
               /\ HeadRowsOf(r)' = {} /\ MetricRowsOf(r)' = {}
               /\ UNCHANGED store_vars
               /\ IF pc[r] = "check_classes"
                  THEN err'[r] = "InsufficientClasses"
                  ELSE /\ err'[r] \in {"NoMatchingClasses", "ShapeMismatch"}
                       /\ (err'[r] = "NoMatchingClasses"
                            <=> Range(rows[r]) \cap Range(class_order[r]) = {})]_vars

\* C7 witness: build_arrays has returned a label vector with one distinct
\* label, built from rows of one class, while the store already holds a head.
C7_Witness ==
    \E r \in Runs :
        /\ pc[r] = "check_classes"
        /\ OneClass(rows[r])
        /\ Cardinality(Range(y[r])) = 1
        /\ classifier_models # {}

HeadIdUnique ==
    \A m1 \in classifier_models, m2 \in classifier_models :
        m1.head_id = m2.head_id => m1 = m2

\* C8: classifier_models never holds two rows with one head_id, and after a
\* run's export_head the row of its head_id is exactly the row the run
\* supplied, in every field.
C8_HeadUpsertReplacesAllFields ==
    /\ []HeadIdUnique
    /\ [][\A r \in Runs :
            (pc[r] = "export_head" /\ pc'[r] = "store_train")
                => \E h \in HeadIds :
                    /\ head_id'[r] = Some(h)
                    /\ {m \in classifier_models' : m.head_id = h} = {HeadRow(r, h)}]_vars

\* C8 witness: two completed runs wrote the same head_id with different
\* model_id, dim, temperature, weights and bias.
C8_Witness ==
    /\ \A r \in Runs : pc[r] = "done"
    /\ head_id["r1"] = head_id["r2"]
    /\ temperature["r1"] # temperature["r2"]
    /\ Cardinality(classifier_models) = 1

MetricKeyUnique ==
    \A x1 \in classifier_metrics, x2 \in classifier_metrics :
        (x1.head_id = x2.head_id /\ x1.split = x2.split /\ x1.threshold = x2.threshold)
            => x1 = x2

\* C9: after completed runs, classifier_metrics holds one row per
\* (head_id, split, threshold), the accuracy rows (threshold NULL) included.
C9_OneRowPerMetricKey ==
    (\A r \in Runs : pc[r] = "done") => MetricKeyUnique

\* C10: when two runs on one head_id have both completed, the head row and
\* the gating rows (the rows with a threshold, which are upserted in place)
\* of that head_id all hold the values of one and the same run.
C10_LastWriterWins ==
    (/\ \A r \in Runs : pc[r] = "done"
     /\ head_id["r1"] = head_id["r2"])
        => \E w \in Runs :
            /\ \A m \in classifier_models :
                    Some(m.head_id) = head_id[w] => m.weights.fitted_by = w
            /\ \A x \in classifier_metrics :
                    (Some(x.head_id) = head_id[w] /\ ~IsNull(x.threshold))
                        => x.created_at = w

-----------------------------------------------------------------------------
(* Independence of runs, stage order and the shape of stored heads,        *)
(* checked under Spec.                                                     *)

\* run r takes the step
Steps(r) == pc'[r] # pc[r] \/ gi'[r] # gi[r]

ModelsOfHead(h) == {m \in classifier_models : m.head_id = h}
MetricsOfHead(h) == {x \in classifier_metrics : x.head_id = h}

\* the 13 metric rows one completed run r writes under head_id h
RunMetricRows(r, h) ==
    {MetricRow(h, k[1], IF IsNull(k[2]) THEN Some(r) ELSE NULL,
               IF IsNull(k[2]) THEN NULL ELSE Some(r),
               IF IsNull(k[2]) THEN NULL ELSE Some(r), k[2], r) : k \in RunMetricKeys}

\* C11: a step of a run leaves every head row and metric row of every other
\* head_id as it was, and when two runs with distinct head_ids have both
\* completed, each head_id holds exactly the rows its run wrote, which is
\* the store either sequential order produces.
C11_DistinctHeadsIndependent ==
    /\ [][\A r \in Runs : Steps(r) =>
            \A h \in HeadIds :
                Some(h) # head_id'[r]
                    => /\ ModelsOfHead(h)' = ModelsOfHead(h)
                       /\ MetricsOfHead(h)' = MetricsOfHead(h)]_vars
    /\ []((/\ \A r \in Runs : pc[r] = "done"
           /\ head_id["r1"] # head_id["r2"])
            => \A r \in Runs :
                /\ ModelsOfHead(head_id[r][1]) = {HeadRow(r, head_id[r][1])}
                /\ MetricsOfHead(head_id[r][1]) = RunMetricRows(r, head_id[r][1]))

\* C11 witness: both runs completed, on distinct head_ids, and both tables
\* hold rows of both.
C11_Witness ==
    /\ \A r \in Runs : pc[r] = "done"
    /\ head_id["r1"] # head_id["r2"]
    /\ \A r \in Runs : HeadRowsOf(r) # {} /\ MetricRowsOf(r) # {}

\* the evaluator's steps: print_metrics (accuracy_score of each split) and
\* log_gating_metrics (predict_proba, margins, coverage and precision)
EvaluationPending(r) == pc[r] \in {"print_metrics"} \cup Range(GatingPcs)
CalibrationFinished(r) == temperature[r] # Unset.temperature
HasWritten(r) == ~IsNull(head_id[r])

\* C12: a run that still has an evaluation step to take has finished
\* calibration and has not yet written to the store.
C12_EvaluationAfterCalibrationBeforeStore ==
    \A r \in Runs :
        EvaluationPending(r) => (CalibrationFinished(r) /\ ~HasWritten(r))

\* C13: a run whose fitted model fails one of export_head's three shape
\* checks leaves export_head by aborting, without changing either table, and
\* a run that aborted with the serialization shape mismatch has no row in
\* the store.
C13_ShapeMismatchBeforeAnyWrite ==
    /\ [][\A r \in Runs :
            (pc[r] = "export_head" /\ Steps(r)
                /\ ShapeMismatch(model[r][1], class_ids[r]))
                => (pc'[r] = "error" /\ UNCHANGED store_vars)]_vars
    /\ [](\A r \in Runs :
            (pc[r] = "error" /\ err[r] = "SerializationShapeMismatch")
                => NoRowsOf(r))

\* C13 witness: a run aborted with the serialization shape mismatch while
\* the other run's head is in the store.
C13_Witness ==
    \E r \in Runs :
        /\ pc[r] = "error"
        /\ err[r] = "SerializationShapeMismatch"
        /\ classifier_models # {}

\* C14: in every head row of the store the weights blob has
\* num_classes * dim * 4 bytes and the bias blob num_classes * 4 bytes, and
\* the row a run writes has num_classes equal to the number of the run's
\* working class_ids and dim equal to the length of its embedding vectors.
C14_StoredHeadShape ==
    /\ [](\A m \in classifier_models :
            /\ m.weights.nbytes = m.num_classes * m.dim * 4
            /\ m.bias.nbytes = m.num_classes * 4)
    /\ [][\A r \in Runs :
            (pc[r] = "export_head" /\ pc'[r] = "store_train")
                => \A m \in {n \in classifier_models' : Some(n.head_id) = head_id'[r]} :
                    /\ m.num_classes = Len(class_ids[r])
                    /\ m.dim = dim[r]
                    /\ m.dim = EmbeddingDim(m.model_id)]_vars

\* C14 witness: the store holds two heads of different dim, each with three
\* classes.
C14_Witness ==
    \E m1 \in classifier_models, m2 \in classifier_models :
        /\ m1.dim # m2.dim
        /\ m1.num_classes = 3
        /\ m1.weights.nbytes # m2.weights.nbytes

\* C15: a run that reaches export_head with exactly two working class_ids
\* (its model was fitted on both) persists a head with num_classes = 2; only
\* a failing store write can stop it.
C15_TwoClassRunPersistsHead ==
    [][\A r \in Runs :
        (pc[r] = "export_head" /\ Len(class_ids[r]) = 2 /\ Steps(r))
            => \/ /\ pc'[r] = "store_train"
                  /\ \E m \in classifier_models' :
                        Some(m.head_id) = head_id'[r] /\ m.num_classes = 2
               \/ err'[r] = "StorageError"]_vars

\* C18: once a run is done, the store holds under its head_id, for each of
\* the splits train, val and test, an accuracy row and a coverage/precision
\* row for each of the five thresholds.
C18_MetricRowsOfEverySplit ==
    \A r \in Runs :
        pc[r] = "done" =>
            \A split \in Range(AccuracySplits) :
                /\ \E x \in MetricsOfHead(head_id[r][1]) :
                        x.split = split /\ IsNull(x.threshold) /\ ~IsNull(x.accuracy)
                /\ \A i \in 1..Len(thresholds) :
                        \E x \in MetricsOfHead(head_id[r][1]) :
                            /\ x.split = split
                            /\ x.threshold = Some(thresholds[i])
                            /\ ~IsNull(x.coverage)

-----------------------------------------------------------------------------
(* Properties of split_stratified, checked under SpecSplit.                *)

SplitNames == {"train", "val", "test"}
SplitReturned == ~IsNull(split_out) /\ split_out[1].error = ""

\* C16: when split_stratified returns, every sample index of the dataset is
\* in exactly one of train, val and test, once, and the label next to it is
\* the label the sample has in the dataset.
C16_SplitIsPartition ==
    SplitReturned =>
        LET full == split_in[1]
            out == split_out[1]
        IN  /\ UNION {Range(out[sp].X) : sp \in SplitNames} = Range(full.X)
            /\ \A s1 \in SplitNames, s2 \in SplitNames :
                    s1 # s2 => Range(out[s1].X) \cap Range(out[s2].X) = {}
            /\ \A sp \in SplitNames :
                    /\ Cardinality(Range(out[sp].X)) = Len(out[sp].X)
                    /\ Len(out[sp].y) = Len(out[sp].X)
                    /\ \A k \in 1..Len(out[sp].X) :
                            out[sp].y[k] = full.y[out[sp].X[k]]

\* C16 witness: the call returned three non-empty splits of a dataset whose
\* first two samples have different labels.
C16_Witness ==
    /\ SplitReturned
    /\ \A sp \in SplitNames : split_out[1][sp].X # <<>>
    /\ split_in[1].y[1] # split_in[1].y[2]

\* the pairs of positive fractions that agree with (tf, vf) wherever tf or vf
\* is positive
ZeroReplaced(tf, vf) ==
    {p \in SplitFractions \X SplitFractions :
        /\ p[1] > 0 /\ p[2] > 0
        /\ tf > 0 => p[1] = tf
        /\ vf > 0 => p[2] = vf}

\* the dataset can be split three ways with the positive fractions of (tf, vf)
EnoughSamples(X, ys, tf, vf) ==
    \E p \in ZeroReplaced(tf, vf) :
        \E res \in split_stratified(X, ys, p[1], p[2]) : res.error = ""

\* C26: split_stratified raises the invalid-fractions error exactly when
\* test_fraction < 0, val_fraction < 0 or their sum is at least 1, and it
\* returns three splits for every other pair, a zero fraction included,
\* whenever the dataset has enough samples for the positive fractions.
C26_FractionValidation ==
    ~IsNull(split_out) =>
        LET in == split_in[1]
            out == split_out[1]
        IN  /\ out.error = "InvalidFractions"
                <=> InvalidFractions(in.test_fraction, in.val_fraction)
            /\ (/\ ~InvalidFractions(in.test_fraction, in.val_fraction)
                /\ EnoughSamples(in.X, in.y, in.test_fraction, in.val_fraction))
                    => out.error = ""

\* with positive fractions C26 holds
C26_PositiveFractionsOnly ==
    (~IsNull(split_out) /\ split_in[1].test_fraction > 0
        /\ split_in[1].val_fraction > 0) => C26_FractionValidation

-----------------------------------------------------------------------------
(* Properties of log_gating_metrics, checked under SpecGating.             *)

\* the coverage of threshold t when margins are those of softmax(logits / T)
ScaledCoverage(samples, T, t) ==
    [num |-> Cardinality({k \in 1..Len(samples) :
                            SoftmaxMargin(samples[k].z, T) >= t * 100}),
     den |-> Len(samples)]

\* C17: every stored coverage is the share of samples whose margin under
\* softmax(logits / T) reaches the threshold, T being the temperature the
\* run fitted and stored in its head.
C17_GatingUsesTemperature ==
    \A i \in 1..Len(gate_out) :
        gate_out[i].coverage =
            ScaledCoverage(gate_in[1].samples, gate_in[1].temperature,
                           gate_out[i].threshold)

\* C19: the stored coverage values do not increase from one threshold to
\* the next larger one.
C19_CoverageMonotone ==
    \A i \in 1..Len(gate_out), j \in 1..Len(gate_out) :
        gate_out[i].threshold <= gate_out[j].threshold
            => /\ gate_out[j].coverage.den = gate_out[i].coverage.den
               /\ gate_out[j].coverage.num <= gate_out[i].coverage.num

\* C19 witness: all five rows are stored, every sample is covered at the
\* lowest threshold and none at the highest.
C19_Witness ==
    /\ Len(gate_out) = Len(thresholds)
    /\ gate_out[1].coverage.num = gate_out[1].coverage.den
    /\ gate_out[2].coverage.num < gate_out[1].coverage.num
    /\ gate_out[Len(thresholds)].coverage.num = 0

\* the samples whose margin reaches threshold t (hundredths)
CoveredAt(t) ==
    {k \in 1..Len(gate_in[1].samples) : Margins(gate_in[1].samples)[k] >= t * 100}
CorrectAt(t) == {k \in CoveredAt(t) : Correct(gate_in[1].samples)[k]}

\* C27: the row stored for threshold t has coverage = covered samples /
\* samples of the split and precision = correctly predicted covered samples
\* / covered samples; when no sample is covered the precision is NULL and
\* the coverage 0.
C27_CoverageAndPrecision ==
    \A i \in 1..Len(gate_out) :
        LET row == gate_out[i]
            t == thresholds[i]
        IN  /\ row.threshold = t
            /\ row.coverage.den = Len(gate_in[1].samples)
            /\ row.coverage.num = Cardinality(CoveredAt(t))
            /\ IF CoveredAt(t) = {}
               THEN IsNull(row.precision) /\ row.coverage.num = 0
               ELSE /\ ~IsNull(row.precision)
                    /\ row.precision[1].den = Cardinality(CoveredAt(t))
                    /\ row.precision[1].num = Cardinality(CorrectAt(t))

\* C27 witness: all five rows are stored; at the lowest threshold some but
\* not all samples are covered and some but not all of those are predicted
\* correctly; at the highest threshold no sample is covered.
C27_Witness ==
    /\ Len(gate_out) = Len(thresholds)
    /\ 0 < gate_out[1].coverage.num
    /\ gate_out[1].coverage.num < gate_out[1].coverage.den
    /\ 0 < gate_out[1].precision[1].num
    /\ gate_out[1].precision[1].num < gate_out[1].precision[1].den
    /\ IsNull(gate_out[Len(thresholds)].precision)

-----------------------------------------------------------------------------
(* Properties of fit_temperature, checked under SpecCalibrator.            *)

C24_StoredTemperature ==
    /\ [](\A m \in classifier_models :
            IF CommandLine(m.weights.fitted_by).no_temp_scaling
            THEN m.temperature = 100
            ELSE m.temperature \in FittedTemps \cup {100})
    /\ [][\A r \in Runs :
            (pc[r] = "fit_temperature" /\ Steps(r)
                /\ CommandLine(r).no_temp_scaling) => temperature'[r] = 100]_vars
    /\ [][\A r \in Runs :
            (pc[r] = "export_head" /\ pc'[r] = "store_train")
                => \A m \in {n \in classifier_models' : Some(n.head_id) = head_id'[r]} :
                        m.temperature = temperature[r]]_vars

\* C24 witness: the store holds a head of the run with --no-temp-scaling at
\* temperature 1.0 and a head of the other run at a fitted temperature.
C24_Witness ==
    \E m1 \in classifier_models, m2 \in classifier_models :
        /\ CommandLine(m1.weights.fitted_by).no_temp_scaling
        /\ m1.temperature = 100
        /\ ~CommandLine(m2.weights.fitted_by).no_temp_scaling
        /\ m2.temperature \in FittedTemps

\* C29: every metric row in the store has a head_id for which the store
\* holds a head row.
C29_MetricsReferToHead ==
    \A x \in classifier_metrics :
        \E m \in classifier_models : m.head_id = x.head_id

\* C29 witness: the store holds metric rows of both runs under two head_ids.
C29_Witness ==
    /\ \A r \in Runs : MetricRowsOf(r) # {}
    /\ \E x1 \in classifier_metrics, x2 \in classifier_metrics :
            x1.head_id # x2.head_id

\* C25: when the optimiser raised or returned a result flagged unsuccessful,
\* the returned temperature is the outcome of the grid search: no grid
\* temperature has a lower validation NLL.
C25_GridSearchOnEveryFailure ==
    (~IsNull(cal_out) /\ cal_out[1].path # "success") =>
        \A k \in 1..Len(LogspaceGrid) :
            cal_in[1][cal_out[1].t] <= cal_in[1][LogspaceGrid[k]]

-----------------------------------------------------------------------------
(* Properties of the serialisation, checked under SpecSerialize.           *)

\* C23: decoding the stored blobs and reshaping to (num_classes, dim)
\* row-major gives back the weights and the bias; the weight of class c and
\* feature d is the float at index c * dim + d of the weights blob, the
\* bias of class c the float at index c of the bias blob.
C23_SerializationRoundTrip ==
    ~IsNull(ser_out) =>
        LET W == ser_in[1].weights
            b == ser_in[1].bias
            head == ser_out[1]
        IN  /\ Reshape(frombuffer(head.weights), head.num_classes, head.dim) = W
            /\ frombuffer(head.bias) = b
            /\ \A c \in 0..(head.num_classes - 1) :
                /\ FloatAt(head.bias, c) = b[c + 1]
                /\ \A d \in 0..(head.dim - 1) :
                        FloatAt(head.weights, c * head.dim + d) = W[c + 1][d + 1]

\* C23 witness: a serialised matrix with at least two classes and two
\* features whose entries (class 0, feature 1) and (class 1, feature 0)
\* differ.
C23_Witness ==
    /\ ~IsNull(ser_out)
    /\ ser_out[1].num_classes >= 2
    /\ ser_out[1].dim >= 2
    /\ ser_in[1].weights[1][2] # ser_in[1].weights[2][1]

-----------------------------------------------------------------------------
(* Properties of build_arrays, checked under Spec.                         *)

\* C21: when build_arrays returns, class_ids is class_order restricted to the
\* classes of the fetched rows, in class_order's order; the label vector has
\* one entry for each row whose class_id is in class_order, in row order,
\* and each entry is a position (from 0) of the row's class_id in class_ids.
C21_WorkingClassSet ==
    [][\A r \in Runs :
        (pc[r] = "build_arrays" /\ pc'[r] = "check_classes")
            => LET included ==
                       SelectSeq(rows[r], LAMBDA c : c \in Range(class_order[r]))
               IN  /\ class_ids'[r] =
                        SelectSeq(class_order[r], LAMBDA c : c \in Range(rows[r]))
                   /\ Len(y'[r]) = Len(included)
                   /\ \A i \in 1..Len(included) :
                        /\ y'[r][i] \in 0..(Len(class_ids'[r]) - 1)
                        /\ class_ids'[r][y'[r][i] + 1] = included[i]]_vars

\* C21 witness: build_arrays returned two of the three listed classes, left
\* out a row of a class that is not listed, and the first kept row has the
\* second class.
C21_Witness ==
    \E r \in Runs :
        /\ pc[r] = "check_classes"
        /\ Len(class_ids[r]) = 2
        /\ Len(class_order[r]) = 2
        /\ Len(y[r]) < Len(rows[r])
        /\ y[r][1] = 1

\* C30: when build_arrays returns, the label vector is non-empty and every
\* index 0..C-1 of class_ids occurs in it, so the number of distinct labels
\* is len(class_ids).
C30_EveryClassIndexOccurs ==
    \A r \in Runs :
        pc[r] = "check_classes" =>
            /\ y[r] # <<>>
            /\ Range(y[r]) = 0..(Len(class_ids[r]) - 1)

-----------------------------------------------------------------------------
(* Properties of load_training_rows, checked under SpecResolver.           *)

Args == q[1]
OutRowsOf(sid) ==
    {rows_out[i] : i \in {j \in 1..Len(rows_out) : rows_out[j].sample_id = sid}}
HasEmbedding(sid) == [sample_id |-> sid, model_id |-> Args.model_id] \in Embeddings
QualifyingWeak(sid) ==
    {l \in labels_weak :
        /\ l.sample_id = sid
        /\ l.ruleset_version = Args.ruleset_version
        /\ l.confidence >= Args.min_confidence}

\* C4: the returned rows never give one sample_id two class_ids.
C4_ResolverIsFunction ==
    ~IsNull(q) =>
        \A i \in 1..Len(rows_out), j \in 1..Len(rows_out) :
            rows_out[i].sample_id = rows_out[j].sample_id
                => rows_out[i].class_id = rows_out[j].class_id

\* C4 witness: a returned sample has qualifying weak labels of two classes.
C4_Witness ==
    /\ ~IsNull(q)
    /\ \E s \in Samples :
        /\ OutRowsOf(s) # {}
        /\ \E l1 \in QualifyingWeak(s), l2 \in QualifyingWeak(s) :
                l1.class_id # l2.class_id

\* C5: with use_user_labels, a sample that has a user label and a qualifying
\* weak label is returned, and every row of it carries the user's class_id.
C5_UserLabelOverrides ==
    (~IsNull(q) /\ Args.use_user_labels) =>
        \A s \in Samples : \A u \in UserMatches(labels_user, s) :
            (HasEmbedding(s) /\ QualifyingWeak(s) # {})
                => /\ OutRowsOf(s) # {}
                   /\ \A o \in OutRowsOf(s) : o.class_id = u.class_id

\* C5 witness: the user label and the only qualifying weak class differ.
C5_Witness ==
    /\ ~IsNull(q)
    /\ Args.use_user_labels
    /\ \E s \in Samples : \E u \in UserMatches(labels_user, s) :
        /\ HasEmbedding(s)
        /\ QualifyingWeak(s) # {}
        /\ \A l \in QualifyingWeak(s) : l.class_id # u.class_id
        /\ OutRowsOf(s) # {}

\* C22: without use_user_labels the returned rows are those the query
\* returns on an empty labels_user table, every returned class is the
\* sample's best weak class, and a sample without a qualifying weak label
\* is not returned.
C22_UserLabelsIgnoredWhenDisabled ==
    (~IsNull(q) /\ ~Args.use_user_labels) =>
        /\ rows_out = load_training_rows(labels_weak, {}, Args)
        /\ \A s \in Samples :
            /\ QualifyingWeak(s) = {} => OutRowsOf(s) = {}
            /\ \A o \in OutRowsOf(s) :
                    Some(o.class_id) = BestClassSubquery(labels_weak, s, Args)

\* C22 witness: the query ran without use_user_labels; one sample with a
\* user label and no qualifying weak label was dropped, another was returned
\* with a class that differs from its user label.
C22_Witness ==
    /\ ~IsNull(q)
    /\ ~Args.use_user_labels
    /\ \E s \in Samples :
        /\ HasEmbedding(s)
        /\ UserMatches(labels_user, s) # {}
        /\ QualifyingWeak(s) = {}
        /\ OutRowsOf(s) = {}
    /\ \E s \in Samples : \E u \in UserMatches(labels_user, s) :
        /\ OutRowsOf(s) # {}
        /\ \A o \in OutRowsOf(s) : o.class_id # u.class_id

\* C28: the returned row list holds each sample_id at most once.
C28_OneRowPerSample ==
    ~IsNull(q) =>
        \A i \in 1..Len(rows_out), j \in 1..Len(rows_out) :
            rows_out[i].sample_id = rows_out[j].sample_id => i = j

\* the sample is resolved from its weak labels
ResolvedFromWeak(s) ==
    HasEmbedding(s) /\ (Args.use_user_labels => UserMatches(labels_user, s) = {})

\* C6: a sample resolved from its weak labels gets the class of a qualifying
\* label of maximum confidence, the lexicographically smallest such class;
\* a sample without a qualifying label gets no row.
C6_BestWeakWithTieBreak ==
    ~IsNull(q) =>
        \A s \in Samples :
            ResolvedFromWeak(s) =>
                /\ (QualifyingWeak(s) = {} <=> OutRowsOf(s) = {})
                /\ \A o \in OutRowsOf(s) :
                    \E l \in QualifyingWeak(s) :
                        /\ l.class_id = o.class_id
                        /\ \A l2 \in QualifyingWeak(s) :
                            /\ l2.confidence <= l.confidence
                            /\ (l2.confidence = l.confidence
                                  => LexRank(l.class_id) <= LexRank(l2.class_id))

\* C6 witness: two qualifying labels of one sample tie on confidence with
\* different classes, and the sample is returned.
C6_Witness ==
    /\ ~IsNull(q)
    /\ \E s \in Samples :
        /\ ResolvedFromWeak(s)
        /\ OutRowsOf(s) # {}
        /\ \E l1 \in QualifyingWeak(s), l2 \in QualifyingWeak(s) :
            l1.class_id # l2.class_id /\ l1.confidence = l2.confidence

====
